---- MODULE Spec2Model ----
(***************************************************************************)
(* A model of three parts of wash:                                         *)
(*   - schema-graph assembly (plugin/types.go: EntrySchema.MarshalJSON     *)
(*     and EntrySchema.fill),                                              *)
(*   - the dataflow job's Open over the streaming buffer (gcp/dataflow.go  *)
(*     and the datastore stream buffer it drives),                         *)
(*   - the traversal cache behind dataflowJob.Xattr (datastore.CachedJSON).*)
(* Each part has its own variables, actions and specification.             *)
(***************************************************************************)
EXTENDS Integers, Sequences, FiniteSets, TLC

\* ------------------------------------------------------------------------
\* Generic helpers
\* ------------------------------------------------------------------------

Range(s) == {s[i] : i \in 1..Len(s)}

NoDup(s) == \A i, j \in 1..Len(s) : i # j => s[i] # s[j]

IsPrefix(s, t) == Len(s) <= Len(t) /\ \A i \in 1..Len(s) : s[i] = t[i]

SeqsUpTo(S, n) == UNION {[1..m -> S] : m \in 0..n}

\* ========================================================================
\* PART 1.  Schema-graph assembly (src/plugin/types.go)
\* ========================================================================

\* Number of distinct type-ids a plugin hierarchy may use.
NTypes == 3
\* Longest slice ChildSchemas() may return.
MaxChildren == 2

Types == 1..NTypes
\* A nil *EntrySchema inside the slice returned by ChildSchemas().
NilSchema == 0
ChildItems == Types \cup {NilSchema}

\* What a schema object of a given type-id looks like to fill():
\*   kind      "leaf": core entry that does not support list
\*             "dir" : core entry that supports list (a Parent)
\*             "ext" : schema of an external plugin, graph # nil
\*   nilSlice  ChildSchemas() returned a nil slice
\*   items     the slice ChildSchemas() returned (type-ids, or NilSchema);
\*             an empty, non-nil slice is nilSlice = FALSE, items = << >>
\*   graph     keys of the pre-baked graph of an "ext" schema, in order
LeafCfg == [kind |-> "leaf", nilSlice |-> FALSE, items |-> << >>, graph |-> << >>]

DirCfgs ==
    {[kind |-> "dir", nilSlice |-> TRUE, items |-> << >>, graph |-> << >>]}
    \cup {[kind |-> "dir", nilSlice |-> FALSE, items |-> s, graph |-> << >>] :
            s \in SeqsUpTo(ChildItems, MaxChildren)}

\* The pre-baked graph of an external plugin's schema is itself a serialized
\* schema graph: its keys are distinct and the first one is the schema's own
\* type-id.  The other keys are arbitrary type-ids.
ExtCfgs(t) ==
    {[kind |-> "ext", nilSlice |-> FALSE, items |-> << >>, graph |-> g] :
        g \in {s \in SeqsUpTo(Types, MaxChildren) :
                    Len(s) >= 1 /\ NoDup(s) /\ s[1] = t}}

TypeCfgs(t) == {LeafCfg} \cup DirCfgs \cup ExtCfgs(t)

Hierarchies ==
    {h \in [Types -> UNION {TypeCfgs(t) : t \in Types}] :
        \A t \in Types : h[t] \in TypeCfgs(t)}

VARIABLES
    schemas,    \* the plugin hierarchy: type-id -> TypeCfg
    root,       \* type-id of the schema being marshalled (s.TypeID)
    regType,    \* the type-id whose label is registrySchemaLabel (0: none)
    status,     \* "idle" | "filling" | "done" | "panic"
    panicAt,    \* type-id named by fillPanicf's diagnostic (0: none)
    ordering,   \* linkedhashmap: keys in insertion order
    table,      \* linkedhashmap: key -> "none" | "core" | "ext"
    Children,   \* entrySchema.Children of each core schema
    stack,      \* fill() activations: <<[t, i]>>, innermost last
    fills,      \* history: type-ids fill() was invoked on, in order
    refilled,   \* history: fill() was invoked on a type-id already a key
    nsteps      \* history: steps taken since MarshalJSON started

schemaVars == <<schemas, root, regType, status, panicAt, ordering, table,
                Children, stack, fills, refilled, nsteps>>

VARIABLES
    mux,        \* cli.mux: the opener holding it, or NoOwner
    reqs,       \* cli.reqs: name -> buffer id, or NoBuf
    nbufs,      \* buffers allocated by datastore.NewBuffer so far
    bstate,     \* buffer -> "Unalloc" | "Idle" | "Priming" | "Streaming"
                \*           | "Closed" | "Errored"
    slab,       \* buffer -> the bytes appended so far
    opc,        \* opener -> "idle" | "waiting" | "returned"
    oname,      \* opener -> the entry it opens
    obuf,       \* opener -> the buffer Open found or made
    osig,       \* opener -> what arrived on its `buffered` channel:
                \*           "none" | "ok" | "err"
    oerr,       \* opener -> the error Open returned: "none" (not yet
                \*           returned) | "nil" | "error"
    gstate,     \* opener -> its `go buf.Stream(...)` goroutine:
                \*           "none" | "spawned" | "source" | "exited"
    rpc,        \* reader -> "idle" | "sized"
    rbuf,       \* reader -> buffer it reads
    rsize,      \* reader -> the size it observed
    view,       \* reader -> the bytes its last read returned
    vbuf,       \* reader -> the buffer those bytes came from (NoBuf: none)
    sources,    \* history: openers whose goroutine became a source task
    opens       \* history: name -> openers in the order they called Open

streamVars == <<mux, reqs, nbufs, bstate, slab, opc, oname, obuf, osig, oerr,
                gstate, rpc, rbuf, rsize, view, vbuf, sources, opens>>

\* ---- Variables of PART 3 (the traversal cache) ---------------------------
VARIABLES
    ttl,        \* entry-id -> its declared valid-duration
    cache,      \* key -> CacheEntry
    flights,    \* producer invocations: id -> [key, state, result, orphaned]
    nflights,   \* producer invocations started so far
    cpc,        \* caller -> "idle" | "running" | "waiting" | "done"
    ckey,       \* caller -> the key of its call
    cflight,    \* caller -> the invocation it ran or joined (0: none)
    crole,      \* caller -> how its call was served: "none" | "hit" | "run"
                \*           | "join"
    cres,       \* caller -> what its call returned (NoResult: nothing yet)
    dupRun,     \* history: key -> a producer was started while a fresh value
                \*           was cached or another producer for it was running
    errPending, \* history: key -> the last round of the key ended in an error
                \*           and no producer was started since
    delPending, \* history: key -> the key was invalidated and no producer
                \*           was started since
    errSkipped, \* history: a call that followed an error round was served
                \*           without invoking the producer
    delSkipped, \* history: a call that followed an invalidation was served
                \*           without invoking the producer
    lastDel     \* history: the delete that was the last step, with the
                \*           cache as it was before it

cacheVars == <<ttl, cache, flights, nflights, cpc, ckey, cflight, crole, cres,
               dupRun, errPending, delPending, errSkipped, delSkipped,
               lastDel>>

\* ---- Variables of PART 4 (the RQL numeric predicate) ---------------------
VARIABLES
    pred,       \* the numeric node: [op, n, unsigned]
    ustage,     \* "new" | "unmarshalled" | "evaluated" | "roundtrip"
    uinput,     \* the input of the last Unmarshal
    uerr,       \* the error the last Unmarshal returned
    pprev,      \* the node as it was before the last Unmarshal
    evalIn,     \* the value last evaluated
    evalOut,    \* what EvalNumeric returned for it
    rt          \* Marshal, Unmarshal into a fresh node, Marshal again

numericVars == <<pred, ustage, uinput, uerr, pprev, evalIn, evalOut, rt>>

\* ---- Variables of PART 5 (RQL expressions over entries and values) -------
VARIABLES
    qnode,      \* the expression: an atom, or NOT around an atom
    qmode,      \* "value" | "entry": what the expression is evaluated on
    qvalue,     \* the value
    qvschema,   \* the value schema the value conforms to
    qentry,     \* the entry
    qeschema,   \* the entry schema the entry conforms to
    qres,       \* the result on the value or entry ("none": not evaluated)
    qsres       \* the result on the schema ("none": not evaluated)

rqlVars == <<qnode, qmode, qvalue, qvschema, qentry, qeschema, qres, qsres>>

\* ---- Variables of PART 6 (dataflowReader) ---------------------------------
VARIABLES
    lrPages,    \* the pages the API serves, each a sequence of messages
    lrToken,    \* the page the next Do() fetches (0: the empty token)
    lrOverflow, \* rdr.overflow
    lrEof,      \* rdr.eof
    lrPc,       \* "idle" | "loop": outside Read, or in its fetch loop
    lrBuf,      \* the caller's buffer p of the Read in progress
    lrN,        \* n of the Read in progress
    lrGot,      \* history: the bytes reported as read, over all calls
    lrLastN,    \* n of the last Read that returned
    lrLastErr   \* err of the last Read that returned: "none" (no call yet)
                \*   | "nil" | "EOF" | "err"

logVars == <<lrPages, lrToken, lrOverflow, lrEof, lrPc, lrBuf, lrN, lrGot,
             lrLastN, lrLastErr>>

\* ---- Variables of PART 7 (searchDataflowJob) ------------------------------
VARIABLES
    sjApi,      \* projJobsResp.Jobs: the jobs in the order the API returns them
    sjJobs,     \* the strings cachedDataflowJobs returned
    sjListed,   \* cachedDataflowJobs has run
    sjName,     \* the name searched for
    sjRes       \* what searchDataflowJob returned: [done, job, ok]

searchVars == <<sjApi, sjJobs, sjListed, sjName, sjRes>>

otherThanSchema == <<streamVars, cacheVars, numericVars, rqlVars, logVars,
                     searchVars>>

otherThanStream == <<schemaVars, cacheVars, numericVars, rqlVars, logVars,
                     searchVars>>

otherThanCache == <<schemaVars, streamVars, numericVars, rqlVars, logVars,
                    searchVars>>

otherThanNumeric == <<schemaVars, streamVars, cacheVars, rqlVars, logVars,
                      searchVars>>

otherThanRql == <<schemaVars, streamVars, cacheVars, numericVars, logVars,
                  searchVars>>

otherThanLog == <<schemaVars, streamVars, cacheVars, numericVars, rqlVars,
                  searchVars>>

otherThanSearch == <<schemaVars, streamVars, cacheVars, numericVars, rqlVars,
                     logVars>>

\* linkedhashmap.Map.Get: is key present.
InGraph(ord, key) == key \in Range(ord)

\* A map that moves an overwritten key to the end of the iteration order.
PutOrderMoveToEnd(ord, key) ==
    Append(SelectSeq(ord, LAMBDA k : k # key), key)

\* linkedhashmap.Map.Put, the ordering half: a new key is appended, an
\* existing key keeps its place.
PutOrder(ord, key) ==
    IF key \in Range(ord) THEN ord ELSE Append(ord, key)

\* child.graph.Each(func(k, v) { graph.Put(k, v) }) on the ordering.
RECURSIVE MergeOrder(_, _)
MergeOrder(ord, g) ==
    IF g = << >> THEN ord
    ELSE MergeOrder(PutOrder(ord, Head(g)), Tail(g))

\* ... and on the table: every merged key now holds the pre-baked record.
MergeTable(tab, g) ==
    [k \in Types |-> IF k \in Range(g) THEN "ext" ELSE tab[k]]

\* fill() never consults the graph before recursing.
NeedsFillAlways(ord, child) == TRUE

\* Line 314: `if _, ok := graph.Get(child.TypeID); ok { continue }`
NeedsFill(ord, child) == ~InGraph(ord, child)

\* Line 306: `if children == nil`: only a nil slice, not an empty one.
NoChildren(cfg) == cfg.nilSlice

\* The schema variables before MarshalJSON is called (and for good in the
\* specifications of the other parts).
SchemaStart ==
    /\ status = "idle"
    /\ panicAt = 0
    /\ ordering = << >>
    /\ table = [t \in Types |-> "none"]
    /\ Children = [t \in Types |-> << >>]
    /\ stack = << >>
    /\ fills = << >>
    /\ refilled = FALSE
    /\ nsteps = 0

\* Any plugin hierarchy, any schema of it being marshalled.
SchemaInit ==
    /\ schemas \in Hierarchies
    /\ root \in Types
    /\ regType \in Types \cup {0}
    /\ regType # 0 => schemas[regType].kind = "dir"
    /\ SchemaStart

\* One fixed hierarchy, never marshalled.
SchemaIdle ==
    /\ schemas = [t \in Types |-> LeafCfg]
    /\ root = 1
    /\ regType = 0
    /\ SchemaStart

\* The entry of s.fill(graph) for the schema of type-id t, lines 282-308:
\* schemaOf, graph.Put(s.TypeID, &s.entrySchema), the list check and the
\* nil check.  badObj: schemaOf rejected the object passed to
\* SetMetaAttributeSchema / SetMetadataSchema.
FillEnter(t, badObj, stk) ==
    /\ fills' = Append(fills, t)
    /\ refilled' = (refilled \/ InGraph(ordering, t))
    /\ nsteps' = nsteps + 1
    /\ IF badObj
       THEN /\ status' = "panic"
            /\ panicAt' = t
            /\ stack' = stk
            /\ UNCHANGED <<ordering, table>>
       ELSE /\ ordering' = PutOrder(ordering, t)
            /\ table' = [table EXCEPT ![t] = "core"]
            /\ IF schemas[t].kind # "dir"
               THEN /\ stack' = stk
                    /\ status' = IF stk = << >> THEN "done" ELSE "filling"
                    /\ panicAt' = panicAt
               ELSE IF NoChildren(schemas[t])
               THEN /\ status' = "panic"
                    /\ panicAt' = t
                    /\ stack' = stk
               ELSE /\ status' = "filling"
                    /\ panicAt' = panicAt
                    /\ stack' = Append(stk, [t |-> t, i |-> 1])

\* EntrySchema.MarshalJSON, lines 230-251.
\*   extEntry: s.entry is an externalPlugin.
MarshalJSON ==
    /\ status = "idle"
    /\ UNCHANGED <<schemas, root, regType>>
    /\ UNCHANGED otherThanSchema
    /\ IF schemas[root].kind = "ext"
       THEN \* s.graph # nil: the pre-baked graph is marshalled as it is
            /\ ordering' = schemas[root].graph
            /\ table' = MergeTable(table, schemas[root].graph)
            /\ status' = "done"
            /\ nsteps' = nsteps + 1
            /\ UNCHANGED <<panicAt, Children, stack, fills, refilled>>
       ELSE \E extEntry \in BOOLEAN :
            IF extEntry
            THEN /\ status' = "panic"
                 /\ panicAt' = root
                 /\ nsteps' = nsteps + 1
                 /\ UNCHANGED <<ordering, table, Children, stack, fills, refilled>>
            ELSE /\ \E badObj \in BOOLEAN : FillEnter(root, badObj, << >>)
                 /\ UNCHANGED Children

\* One iteration of the loop of lines 309-329 in the innermost fill().
FillChild ==
    /\ status = "filling"
    /\ stack # << >>
    /\ LET top == stack[Len(stack)]
           s == top.t
           kids == schemas[s].items
           rest == SubSeq(stack, 1, Len(stack) - 1)
           next == Append(rest, [t |-> s, i |-> top.i + 1])
       IN /\ top.i <= Len(kids)
          /\ UNCHANGED <<schemas, root, regType>>
          /\ UNCHANGED otherThanSchema
          /\ LET child == kids[top.i] IN
             IF child = NilSchema
             THEN \* line 310: found a nil child schema
                  /\ status' = "panic"
                  /\ panicAt' = s
                  /\ nsteps' = nsteps + 1
                  /\ UNCHANGED <<ordering, table, Children, stack, fills, refilled>>
             ELSE /\ Children' = [Children EXCEPT ![s] = Append(@, child)]
                  /\ IF ~NeedsFill(ordering, child)
                     THEN \* line 314: continue
                          /\ stack' = next
                          /\ nsteps' = nsteps + 1
                          /\ UNCHANGED <<status, panicAt, ordering, table,
                                         fills, refilled>>
                     ELSE IF schemas[child].kind = "ext"
                     THEN /\ nsteps' = nsteps + 1
                          /\ UNCHANGED <<fills, refilled>>
                          /\ IF s # regType
                             THEN \* line 320
                                  /\ status' = "panic"
                                  /\ panicAt' = s
                                  /\ UNCHANGED <<ordering, table, stack>>
                             ELSE \* lines 322-325: merge verbatim
                                  /\ ordering' = MergeOrder(ordering, schemas[child].graph)
                                  /\ table' = MergeTable(table, schemas[child].graph)
                                  /\ stack' = next
                                  /\ UNCHANGED <<status, panicAt>>
                     ELSE \* line 328: child.fill(graph)
                          \E badObj \in BOOLEAN : FillEnter(child, badObj, next)

\* The loop of the innermost fill() is over: it returns to its caller.
FillReturn ==
    /\ status = "filling"
    /\ stack # << >>
    /\ LET top == stack[Len(stack)] IN top.i > Len(schemas[top.t].items)
    /\ stack' = SubSeq(stack, 1, Len(stack) - 1)
    /\ status' = IF Len(stack) = 1 THEN "done" ELSE "filling"
    /\ nsteps' = nsteps + 1
    /\ UNCHANGED <<schemas, root, regType, panicAt, ordering, table, Children,
                   fills, refilled>>
    /\ UNCHANGED otherThanSchema

SchemaNext == MarshalJSON \/ FillChild \/ FillReturn


\* ---- Properties of schema assembly ----------------------------------------

CoreRoot == schemas[root].kind # "ext"

\* C7: in the graph assembled for a core plugin entry the first key in
\* iteration order is the type-id of the schema being marshalled, whatever
\* the children are: at every point of the assembly once the graph is
\* non-empty, and a finished assembly has a non-empty graph.
C7_RootIsFirstKey ==
    CoreRoot =>
        /\ (ordering # << >> => ordering[1] = root)
        /\ (status \in {"filling", "done"} => ordering # << >>)

\* C7's case: a finished assembly in which a child referred back to the root
\* and a merged pre-baked sub-graph overwrote the root's own record.
C7_Witness ==
    /\ status = "done"
    /\ schemas[root].kind = "dir"
    /\ table[root] = "ext"
    /\ \E t \in Types : root \in Range(Children[t])
    /\ Len(ordering) >= 2

\* Type-ids reachable from the root through ChildSchemas() and through the
\* keys of pre-baked graphs.
Succ(t) ==
    IF schemas[t].kind = "dir" THEN Range(schemas[t].items) \ {NilSchema}
    ELSE IF schemas[t].kind = "ext" THEN Range(schemas[t].graph)
    ELSE {}

RECURSIVE Closure(_)
Closure(S) ==
    LET T == S \cup UNION {Succ(t) : t \in S}
    IN IF T = S THEN S ELSE Closure(T)

Reachable == Closure({root})

\* Every step of the assembly is counted; a run of fill() takes at most one
\* step per child plus one to return, and fill() runs once per type-id.
StepBound == 1 + NTypes * (MaxChildren + 1)

\* C8: fill is never invoked on a type-id that is already a key, so no
\* type-id is filled twice, the assembly stops within StepBound steps on
\* every hierarchy (cyclic ones included), and the finished graph has one
\* record per type-id: no key twice, every key reachable from the root, and
\* every type-id in the children list of a filled schema is a key.
C8_FillOncePerTypeId ==
    /\ ~refilled
    /\ NoDup(fills)
    /\ NoDup(ordering)
    /\ nsteps <= StepBound
    /\ Len(stack) <= NTypes
    /\ (status = "done" /\ CoreRoot) =>
          /\ root \in Range(ordering)
          /\ Range(ordering) \subseteq Reachable
          /\ \A t \in Range(fills) : Range(Children[t]) \subseteq Range(ordering)
          /\ \A t \in Range(fills) : Len(Children[t]) = Len(schemas[t].items)

\* C8's case: a finished assembly of a cyclic hierarchy: a directory type
\* whose children include its own type-id, with other types filled too.
C8_Witness ==
    /\ status = "done"
    /\ Len(fills) = NTypes
    /\ \E t \in Range(fills) : t \in Range(Children[t])
    /\ \E t \in Range(fills) : root \in Range(Children[t]) /\ t # root

\* C9: when ChildSchemas() returns the same type-id more than once, the
\* assembly raises no error and the type-id appears at most once in the
\* parent's children list and once as a key of the graph.
C9_DuplicatesDeduplicated ==
    status = "done" =>
        /\ NoDup(ordering)
        /\ \A t \in Range(fills) : NoDup(Children[t])

\* What the code does keep for duplicates: one key per type-id, and the
\* children list repeats ChildSchemas() element for element.
C9_ChildrenMirrorChildSchemas ==
    /\ NoDup(ordering)
    /\ \A t \in Range(fills) : IsPrefix(Children[t], schemas[t].items)

\* C10: a list-capable entry whose ChildSchemas() returns no children (a nil
\* or an empty slice), or a nil child schema, aborts the assembly with a
\* diagnostic naming the entry's type-id: no assembly that filled such an
\* entry finishes, and an entry that does not support list gets no children.
C10_NoChildrenIsFatal ==
    /\ status = "done" =>
          \A t \in Range(fills) :
             schemas[t].kind = "dir" =>
                /\ ~schemas[t].nilSlice
                /\ Len(schemas[t].items) > 0
                /\ NilSchema \notin Range(schemas[t].items)
    /\ \A t \in Types : schemas[t].kind = "leaf" => Children[t] = << >>

\* The part of C10 the code does enforce: a nil slice and a nil child are
\* fatal and the diagnostic names the parent's type-id.
C10_NilIsFatal ==
    /\ status = "done" =>
          \A t \in Range(fills) :
             schemas[t].kind = "dir" =>
                ~schemas[t].nilSlice /\ NilSchema \notin Range(schemas[t].items)
    /\ status = "panic" => panicAt \in Range(fills) \cup {root}
    /\ \A t \in Types : schemas[t].kind = "leaf" => Children[t] = << >>

\* ========================================================================
\* PART 2.  dataflowJob.Open over the streaming buffer
\*          (src/gcp/dataflow.go; the buffer is datastore.StreamBuffer)
\* ========================================================================

\* Concurrent callers of Open.
NOpeners == 3
\* Concurrent readers of the buffers.
NReaders == 2
\* Job names served by one service (cli.reqs is shared by its jobs).
NNames == 2
\* Bytes a source delivers before the model stops it.
MaxSlab == 2
\* Distinct byte values.
NBytes == 2

Openers == 1..NOpeners
Readers == 1..NReaders
Names == 1..NNames
Bytes == 1..NBytes
\* Every Open allocates at most one buffer.
BufIds == 1..NOpeners
\* reqs[name] when the name has no buffer, mux when nobody holds it.
NoBuf == 0
NoOwner == 0

\* Open looks nothing up: every call makes a buffer of its own.
LookupBufferNever(rq, name) == NoBuf

\* Line 146: `buf, ok := cli.reqs[cli.name]`.
LookupBuffer(rq, name) == rq[name]

\* Lines 157-159: `<-buffered` drops the value received and Open returns
\* `buf, nil` whatever it was.
OpenError(sig) == "nil"

\* The writer end prepends instead of appending.
AppendBytePrepend(bytes, b) == <<b>> \o bytes

\* The source task's write to the slab: append-only.
AppendByte(bytes, b) == Append(bytes, b)

\* A reader's read of the first n bytes of the slab.
ReadPrefix(bytes, n) == SubSeq(bytes, 1, n)

\* What Stream sends on the confirm channel when the buffer already has (or
\* had) its source: the buffer is usable unless the source failed.
ConfirmFor(st) == IF st = "Errored" THEN "err" ELSE "ok"

StreamInit ==
    /\ mux = NoOwner
    /\ reqs = [n \in Names |-> NoBuf]
    /\ nbufs = 0
    /\ bstate = [b \in BufIds |-> "Unalloc"]
    /\ slab = [b \in BufIds |-> << >>]
    /\ opc = [o \in Openers |-> "idle"]
    /\ oname = [o \in Openers |-> 1]
    /\ obuf = [o \in Openers |-> NoBuf]
    /\ osig = [o \in Openers |-> "none"]
    /\ oerr = [o \in Openers |-> "none"]
    /\ gstate = [o \in Openers |-> "none"]
    /\ rpc = [r \in Readers |-> "idle"]
    /\ rbuf = [r \in Readers |-> NoBuf]
    /\ rsize = [r \in Readers |-> 0]
    /\ view = [r \in Readers |-> << >>]
    /\ vbuf = [r \in Readers |-> NoBuf]
    /\ sources = {}
    /\ opens = [n \in Names |-> << >>]

readerVars == <<rpc, rbuf, rsize, view, vbuf>>

\* dataflowJob.Open, lines 141-155: take cli.mux, find or make the buffer,
\* start the goroutine that calls buf.Stream, then wait on `buffered`.
OpenBegin(o, n) ==
    /\ opc[o] = "idle"
    /\ mux = NoOwner
    /\ mux' = o
    /\ oname' = [oname EXCEPT ![o] = n]
    /\ opens' = [opens EXCEPT ![n] = Append(@, o)]
    /\ LET found == LookupBuffer(reqs, n) IN
       IF found # NoBuf
       THEN /\ obuf' = [obuf EXCEPT ![o] = found]
            /\ UNCHANGED <<reqs, nbufs, bstate>>
       ELSE /\ nbufs' = nbufs + 1
            /\ bstate' = [bstate EXCEPT ![nbufs + 1] = "Idle"]
            /\ reqs' = [reqs EXCEPT ![n] = nbufs + 1]
            /\ obuf' = [obuf EXCEPT ![o] = nbufs + 1]
    /\ gstate' = [gstate EXCEPT ![o] = "spawned"]
    /\ opc' = [opc EXCEPT ![o] = "waiting"]
    /\ UNCHANGED <<slab, osig, oerr, sources>>
    /\ UNCHANGED readerVars
    /\ UNCHANGED otherThanStream

\* StreamBuffer.Stream as the goroutine enters it.  On an Idle buffer it
\* becomes the source task (Idle -> Priming); on a buffer that already has,
\* or had, its source it confirms at once and returns.
StreamEnter(o) ==
    /\ gstate[o] = "spawned"
    /\ LET b == obuf[o] IN
       \/ /\ bstate[b] = "Idle"
          /\ bstate' = [bstate EXCEPT ![b] = "Priming"]
          /\ gstate' = [gstate EXCEPT ![o] = "source"]
          /\ sources' = sources \cup {o}
          /\ UNCHANGED osig
       \/ /\ bstate[b] \in {"Streaming", "Closed", "Errored"}
          /\ osig' = [osig EXCEPT ![o] = ConfirmFor(bstate[b])]
          /\ gstate' = [gstate EXCEPT ![o] = "exited"]
          /\ UNCHANGED <<bstate, sources>>
    /\ UNCHANGED <<mux, reqs, nbufs, slab, opc, oname, obuf, oerr, opens>>
    /\ UNCHANGED readerVars
    /\ UNCHANGED otherThanStream

\* The source task reads a byte and appends it; the first byte primes the
\* buffer (Priming -> Streaming) and confirms to the waiting Open.
SourceByte(o, byte) ==
    /\ gstate[o] = "source"
    /\ LET b == obuf[o] IN
       /\ bstate[b] \in {"Priming", "Streaming"}
       /\ Len(slab[b]) < MaxSlab
       /\ slab' = [slab EXCEPT ![b] = AppendByte(@, byte)]
       /\ bstate' = [bstate EXCEPT ![b] = "Streaming"]
       /\ osig' = IF bstate[b] = "Priming"
                  THEN [osig EXCEPT ![o] = "ok"] ELSE osig
    /\ UNCHANGED <<mux, reqs, nbufs, opc, oname, obuf, oerr, gstate,
                   sources, opens>>
    /\ UNCHANGED readerVars
    /\ UNCHANGED otherThanStream

\* The source reaches EOF (Streaming -> Closed).
SourceEOF(o) ==
    /\ gstate[o] = "source"
    /\ bstate[obuf[o]] = "Streaming"
    /\ bstate' = [bstate EXCEPT ![obuf[o]] = "Closed"]
    /\ gstate' = [gstate EXCEPT ![o] = "exited"]
    /\ UNCHANGED <<mux, reqs, nbufs, slab, opc, oname, obuf, osig, oerr,
                   sources, opens>>
    /\ UNCHANGED readerVars
    /\ UNCHANGED otherThanStream

\* The source fails (-> Errored); before the first byte the failure is what
\* the primed-signal delivers.
SourceError(o) ==
    /\ gstate[o] = "source"
    /\ LET b == obuf[o] IN
       /\ bstate[b] \in {"Priming", "Streaming"}
       /\ bstate' = [bstate EXCEPT ![b] = "Errored"]
       /\ osig' = IF bstate[b] = "Priming"
                  THEN [osig EXCEPT ![o] = "err"] ELSE osig
    /\ gstate' = [gstate EXCEPT ![o] = "exited"]
    /\ UNCHANGED <<mux, reqs, nbufs, slab, opc, oname, obuf, oerr,
                   sources, opens>>
    /\ UNCHANGED readerVars
    /\ UNCHANGED otherThanStream

\* dataflowJob.Open, lines 156-160: `<-buffered`, `return buf, nil`, and the
\* deferred cli.mux.Unlock().
OpenReturn(o) ==
    /\ opc[o] = "waiting"
    /\ osig[o] # "none"
    /\ oerr' = [oerr EXCEPT ![o] = OpenError(osig[o])]
    /\ opc' = [opc EXCEPT ![o] = "returned"]
    /\ mux' = NoOwner
    /\ UNCHANGED <<reqs, nbufs, bstate, slab, oname, obuf, osig, gstate,
                   sources, opens>>
    /\ UNCHANGED readerVars
    /\ UNCHANGED otherThanStream

\* A reader snapshots the size of a buffer ...
ReadSize(r, b) ==
    /\ rpc[r] = "idle"
    /\ bstate[b] # "Unalloc"
    /\ rpc' = [rpc EXCEPT ![r] = "sized"]
    /\ rbuf' = [rbuf EXCEPT ![r] = b]
    /\ rsize' = [rsize EXCEPT ![r] = Len(slab[b])]
    /\ UNCHANGED <<view, vbuf>>
    /\ UNCHANGED <<mux, reqs, nbufs, bstate, slab, opc, oname, obuf, osig,
                   oerr, gstate, sources, opens>>
    /\ UNCHANGED otherThanStream

\* ... and later reads that many bytes, without locking the writer.
ReadBytes(r) ==
    /\ rpc[r] = "sized"
    /\ view' = [view EXCEPT ![r] = ReadPrefix(slab[rbuf[r]], rsize[r])]
    /\ vbuf' = [vbuf EXCEPT ![r] = rbuf[r]]
    /\ rpc' = [rpc EXCEPT ![r] = "idle"]
    /\ rbuf' = [rbuf EXCEPT ![r] = NoBuf]
    /\ rsize' = [rsize EXCEPT ![r] = 0]
    /\ UNCHANGED <<mux, reqs, nbufs, bstate, slab, opc, oname, obuf, osig,
                   oerr, gstate, sources, opens>>
    /\ UNCHANGED otherThanStream

\* Opens of any entry and the source tasks they start.
StreamNext ==
    \/ \E o \in Openers, n \in Names : OpenBegin(o, n)
    \/ \E o \in Openers : StreamEnter(o)
    \/ \E o \in Openers, byte \in Bytes : SourceByte(o, byte)
    \/ \E o \in Openers : SourceEOF(o)
    \/ \E o \in Openers : SourceError(o)
    \/ \E o \in Openers : OpenReturn(o)

\* One entry, opened any number of times, and the readers of its buffer.
ReadersNext ==
    \/ \E o \in Openers : OpenBegin(o, 1)
    \/ \E o \in Openers : StreamEnter(o)
    \/ \E o \in Openers, byte \in Bytes : SourceByte(o, byte)
    \/ \E o \in Openers : SourceEOF(o)
    \/ \E o \in Openers : SourceError(o)
    \/ \E o \in Openers : OpenReturn(o)
    \/ \E r \in Readers, b \in BufIds : ReadSize(r, b)
    \/ \E r \in Readers : ReadBytes(r)

\* ---- Properties of Open and the streaming buffer -------------------------

\* C4: any two readers of the same buffer that observed sizes n1 <= n2 got
\* the same first n1 bytes, and what a reader got is still the beginning of
\* the slab: bytes once appended are never changed or removed.
C4_PrefixConsistency ==
    /\ \A r1, r2 \in Readers :
          (vbuf[r1] # NoBuf /\ vbuf[r1] = vbuf[r2] /\ Len(view[r1]) <= Len(view[r2]))
              => view[r1] = SubSeq(view[r2], 1, Len(view[r1]))
    /\ \A r \in Readers :
          vbuf[r] # NoBuf => IsPrefix(view[r], slab[vbuf[r]])
    /\ \A r \in Readers :
          rpc[r] = "sized" => rsize[r] <= Len(slab[rbuf[r]])

\* C4's case: two readers of one buffer hold reads of different, non-zero
\* sizes while a third size has been observed and not read yet.
C4_Witness ==
    \E r1, r2 \in Readers :
        /\ r1 # r2
        /\ vbuf[r1] # NoBuf /\ vbuf[r1] = vbuf[r2]
        /\ Len(view[r1]) = 1 /\ Len(view[r2]) = 2
        /\ view[r2][1] # view[r2][2]
        /\ rpc[r1] = "sized" /\ rsize[r1] = 2

\* The buffer's source failed before it delivered a byte.
FailedPriming(b) == bstate[b] = "Errored" /\ slab[b] = << >>

\* C5: an Open whose source errors before any byte returns that error; an
\* Open whose source delivered a byte first returns no error.
C5_OpenReturnsPrimingError ==
    \A o \in Openers :
        opc[o] = "returned" =>
            (oerr[o] = "error" <=> FailedPriming(obuf[o]))

\* What Open does return: a nil error, the priming failure included.
C5_OpenAlwaysReturnsNil ==
    \A o \in Openers : opc[o] = "returned" => oerr[o] = "nil"

\* Openers that have looked up (or made) their buffer.
Opened == {o \in Openers : opc[o] # "idle"}

\* C6: all Opens of one entry get the same buffer (different entries get
\* different ones); a buffer has at most one source task, ever and at any
\* time, and it is the goroutine of the first Open of that entry.
C6_OneBufferOneProducer ==
    /\ \A o1, o2 \in Opened : (oname[o1] = oname[o2]) <=> (obuf[o1] = obuf[o2])
    /\ \A o \in Opened : obuf[o] # NoBuf /\ obuf[o] = reqs[oname[o]]
    /\ \A b \in BufIds : Cardinality({o \in sources : obuf[o] = b}) <= 1
    /\ \A b \in BufIds :
          Cardinality({o \in Openers : gstate[o] = "source" /\ obuf[o] = b}) <= 1
    /\ \A o \in sources : opens[oname[o]][1] = o
    /\ \A o \in Openers : gstate[o] = "source" => o \in sources

\* C6's case: three Opens of the same entry have returned, the first one's
\* goroutine was the source and the buffer holds what it appended.
C6_Witness ==
    /\ \A o \in Openers : opc[o] = "returned" /\ oname[o] = 1
    /\ Cardinality(sources) = 1
    /\ Len(slab[reqs[1]]) = MaxSlab

\* ========================================================================
\* PART 3.  The traversal cache behind dataflowJob.Xattr
\*          (src/gcp/dataflow.go calls datastore.CachedJSON)
\* ========================================================================

\* Concurrent callers of cached operations.
NCallers == 3
\* Producer invocations the model follows.
MaxFlights == 3
\* The valid-duration of an entry that is cached, in clock ticks.
TTLMax == 1
\* Distinct values a producer may return.
NValues == 2

\* Callers that race with invalidation.
NRacing == 2

Callers == 1..NCallers
RacingCallers == 1..NRacing
FlightIds == 1..MaxFlights
Values == 1..NValues
\* The producer failed.
Err == 0
\* The call has not returned.
NoResult == -1
NoFlight == 0

\* Entry-ids are paths: "a" is a prefix of "ab", "ab" is not one of "a".
Ids == {<<"a">>, <<"a", "b">>}
\* The cached operations: the metadata of both entries and the listing of
\* the directory "a".
Keys == {<<"list", <<"a">>>>, <<"xattr", <<"a">>>>, <<"xattr", <<"a", "b">>>>}
XattrKeys == {k \in Keys : k[1] = "xattr"}
\* Arguments of delete(prefix).
Prefixes == {<<"a">>, <<"a", "b">>}

NoEntry == [kind |-> "none", flight |-> NoFlight, val |-> NoResult, age |-> 0]
InFlightEntry(f) == [kind |-> "inflight", flight |-> f, val |-> NoResult, age |-> 0]
ValueEntry(v, f) == [kind |-> "value", flight |-> f, val |-> v, age |-> 0]

NoFlightRec == [key |-> <<"xattr", <<"a">>>>, state |-> "unused",
                result |-> NoResult, orphaned |-> FALSE]

\* The producer dataflowJob.Xattr hands to CachedJSON (lines 51-58): the API
\* call fails, or the job marshals to some JSON.
ProducerOutcomes == Values \cup {Err}

\* delete(prefix): the entry-id starts with prefix.
Matches(id, prefix) ==
    Len(prefix) <= Len(id) /\ SubSeq(id, 1, Len(prefix)) = prefix

\* A cached value that has not outlived the entry's valid-duration.
Fresh(e, d) == e.kind = "value" /\ e.age < d

\* Callers never join a producer that is already running.
JoinsNever(e) == FALSE

\* A later caller observes the in-flight record and waits on it.
Joins(e) == e.kind = "inflight"

\* Whatever the producer returned is stored.
StoresAll(out, d) == d > 0

\* Only a value is stored, and only under a positive valid-duration.
Stores(out, d) == out # Err /\ d > 0

\* The record is installed whether or not it was invalidated meanwhile.
IsCurrentAlways(e, f) == TRUE

\* The in-flight record of invocation f is still the key's record.
IsCurrent(e, f) == e.kind = "inflight" /\ e.flight = f

Running(k) == {f \in FlightIds : flights[f].state = "running" /\ flights[f].key = k}

CacheInit ==
    /\ ttl \in {[i \in Ids |-> d] : d \in {0, TTLMax}}
    /\ cache = [k \in Keys |-> NoEntry]
    /\ flights = [f \in FlightIds |-> NoFlightRec]
    /\ nflights = 0
    /\ cpc = [c \in Callers |-> "idle"]
    /\ ckey = [c \in Callers |-> <<"xattr", <<"a">>>>]
    /\ cflight = [c \in Callers |-> NoFlight]
    /\ crole = [c \in Callers |-> "none"]
    /\ cres = [c \in Callers |-> NoResult]
    /\ dupRun = [k \in Keys |-> FALSE]
    /\ errPending = [k \in Keys |-> FALSE]
    /\ delPending = [k \in Keys |-> FALSE]
    /\ errSkipped = FALSE
    /\ delSkipped = FALSE
    /\ lastDel = [on |-> FALSE, prefix |-> << >>, before |-> [k \in Keys |-> NoEntry]]

\* The cache variables when no cached operation is ever called.
CacheIdle ==
    /\ CacheInit
    /\ ttl = [i \in Ids |-> TTLMax]

NoDel == [on |-> FALSE, prefix |-> << >>, before |-> [k \in Keys |-> NoEntry]]

\* cached-op(k) by a caller that is not inside a call, under the structural
\* lock: a fresh value is returned; an
\* in-flight record is joined; otherwise (no record, or an expired value) the
\* caller creates the in-flight record and goes off to run the producer.
CachedCall(c, k) ==
    /\ cpc[c] \in {"idle", "done"}
    /\ ckey' = [ckey EXCEPT ![c] = k]
    /\ lastDel' = NoDel
    /\ LET e == cache[k] IN
       IF Fresh(e, ttl[k[2]])
       THEN /\ cres' = [cres EXCEPT ![c] = e.val]
            /\ cpc' = [cpc EXCEPT ![c] = "done"]
            /\ crole' = [crole EXCEPT ![c] = "hit"]
            /\ cflight' = [cflight EXCEPT ![c] = NoFlight]
            /\ errSkipped' = (errSkipped \/ errPending[k])
            /\ delSkipped' = (delSkipped \/ delPending[k])
            /\ UNCHANGED <<cache, flights, nflights, dupRun, errPending, delPending>>
       ELSE IF Joins(e)
       THEN /\ cpc' = [cpc EXCEPT ![c] = "waiting"]
            /\ crole' = [crole EXCEPT ![c] = "join"]
            /\ cflight' = [cflight EXCEPT ![c] = e.flight]
            /\ cres' = [cres EXCEPT ![c] = NoResult]
            /\ errSkipped' = (errSkipped \/ errPending[k])
            /\ delSkipped' = (delSkipped \/ delPending[k])
            /\ UNCHANGED <<cache, flights, nflights, dupRun, errPending, delPending>>
       ELSE /\ nflights < MaxFlights
            /\ nflights' = nflights + 1
            /\ flights' = [flights EXCEPT ![nflights + 1] =
                              [key |-> k, state |-> "running",
                               result |-> NoResult, orphaned |-> FALSE]]
            /\ cache' = [cache EXCEPT ![k] = InFlightEntry(nflights + 1)]
            /\ cpc' = [cpc EXCEPT ![c] = "running"]
            /\ crole' = [crole EXCEPT ![c] = "run"]
            /\ cflight' = [cflight EXCEPT ![c] = nflights + 1]
            /\ cres' = [cres EXCEPT ![c] = NoResult]
            /\ dupRun' = [dupRun EXCEPT ![k] =
                              @ \/ (e.kind = "value" /\ e.age < ttl[k[2]])
                                \/ Running(k) # {}]
            /\ errPending' = [errPending EXCEPT ![k] = FALSE]
            /\ delPending' = [delPending EXCEPT ![k] = FALSE]
            /\ UNCHANGED <<errSkipped, delSkipped>>
    /\ UNCHANGED ttl
    /\ UNCHANGED otherThanCache

\* The producer returns (it ran outside the lock).  Under the lock again the
\* first caller installs a value, or drops the record on an error or a
\* non-positive valid-duration; a record that was invalidated meanwhile is
\* left alone and the result discarded.  The waiters are released.
ProducerDone(c, out) ==
    /\ cpc[c] = "running"
    /\ LET f == cflight[c]
           k == ckey[c]
           current == IsCurrent(cache[k], f)
       IN /\ flights' = [flights EXCEPT ![f].state = "done", ![f].result = out]
          /\ cache' = IF ~current THEN cache
                      ELSE IF Stores(out, ttl[k[2]])
                      THEN [cache EXCEPT ![k] = ValueEntry(out, f)]
                      ELSE [cache EXCEPT ![k] = NoEntry]
          /\ errPending' = [errPending EXCEPT ![k] = @ \/ (current /\ out = Err)]
    /\ cres' = [cres EXCEPT ![c] = out]
    /\ cpc' = [cpc EXCEPT ![c] = "done"]
    /\ lastDel' = NoDel
    /\ UNCHANGED <<ttl, nflights, ckey, cflight, crole, dupRun, delPending,
                   errSkipped, delSkipped>>
    /\ UNCHANGED otherThanCache

\* A waiter is released with the result of the invocation it joined.
WaiterWake(c) ==
    /\ cpc[c] = "waiting"
    /\ flights[cflight[c]].state = "done"
    /\ cres' = [cres EXCEPT ![c] = flights[cflight[c]].result]
    /\ cpc' = [cpc EXCEPT ![c] = "done"]
    /\ lastDel' = NoDel
    /\ UNCHANGED <<ttl, cache, flights, nflights, ckey, cflight, crole, dupRun,
                   errPending, delPending, errSkipped, delSkipped>>
    /\ UNCHANGED otherThanCache

\* Time passes: every cached value ages (expiry itself is lazy, on read).
Tick ==
    /\ \E k \in Keys : cache[k].kind = "value" /\ cache[k].age < TTLMax
    /\ cache' = [k \in Keys |->
                    IF cache[k].kind = "value" /\ cache[k].age < TTLMax
                    THEN [cache[k] EXCEPT !.age = @ + 1] ELSE cache[k]]
    /\ lastDel' = NoDel
    /\ UNCHANGED <<ttl, flights, nflights, cpc, ckey, cflight, crole, cres,
                   dupRun, errPending, delPending, errSkipped, delSkipped>>
    /\ UNCHANGED otherThanCache

\* delete(prefix), under the write lock: every matching key is removed, the
\* in-flight records among them too; their producers are not cancelled.
Delete(prefix) ==
    /\ \E k \in Keys : Matches(k[2], prefix) /\ cache[k].kind # "none"
    /\ cache' = [k \in Keys |-> IF Matches(k[2], prefix) THEN NoEntry ELSE cache[k]]
    /\ flights' = [f \in FlightIds |->
                      IF /\ flights[f].state = "running"
                         /\ Matches(flights[f].key[2], prefix)
                         /\ cache[flights[f].key] = InFlightEntry(f)
                      THEN [flights[f] EXCEPT !.orphaned = TRUE] ELSE flights[f]]
    /\ delPending' = [k \in Keys |-> delPending[k] \/ Matches(k[2], prefix)]
    /\ errPending' = [k \in Keys |-> errPending[k] /\ ~Matches(k[2], prefix)]
    /\ lastDel' = [on |-> TRUE, prefix |-> prefix, before |-> cache]
    /\ UNCHANGED <<ttl, nflights, cpc, ckey, cflight, crole, cres, dupRun,
                   errSkipped, delSkipped>>
    /\ UNCHANGED otherThanCache

\* Every caller reads metadata; nothing is invalidated.
CallsNext ==
    \/ \E c \in Callers, k \in XattrKeys : CachedCall(c, k)
    \/ \E c \in Callers, out \in ProducerOutcomes : ProducerDone(c, out)
    \/ \E c \in Callers : WaiterWake(c)
    \/ Tick

\* Cached calls of every operation, racing with invalidation.
CacheNext ==
    \/ \E c \in RacingCallers, k \in Keys : CachedCall(c, k)
    \/ \E c \in Callers, out \in ProducerOutcomes : ProducerDone(c, out)
    \/ \E c \in Callers : WaiterWake(c)
    \/ Tick
    \/ \E prefix \in Prefixes : Delete(prefix)

\* ---- Properties of the traversal cache ----------------------------------

Served(c) == cpc[c] = "done" /\ cflight[c] # NoFlight

C2_ErrorsNotCached ==
    /\ \A c \in Callers :
          Served(c) /\ flights[cflight[c]].result = Err => cres[c] = Err
    /\ \A k \in Keys : cache[k].kind = "value" => cache[k].val \in Values
    /\ \A k \in Keys : errPending[k] => cache[k].kind = "none"
    /\ ~errSkipped

\* A waiter received the error of the round it joined, and a later call of
\* the same key invoked the producer again.
C2_Witness ==
    \E c \in Callers, f1, f2 \in FlightIds :
        /\ Served(c) /\ crole[c] = "join" /\ cflight[c] = f1 /\ cres[c] = Err
        /\ ~flights[f1].orphaned
        /\ f2 = f1 + 1
        /\ flights[f2].state # "unused"
        /\ flights[f2].key = flights[f1].key

\* C3: delete(prefix) racing an in-flight producer.  The delete removes
\* exactly the keys whose entry-id starts with the prefix and leaves every
\* other record as it was; the producer still completes and its waiters get
\* its result; that result is never inserted; and the first call of an
\* invalidated key invokes the producer again.
C3_DeleteDiscardsInFlight ==
    /\ lastDel.on =>
          \A k \in Keys : IF IsPrefix(lastDel.prefix, k[2])
                          THEN cache[k] = NoEntry
                          ELSE cache[k] = lastDel.before[k]
    /\ \A c \in Callers : cpc[c] = "waiting" =>
          flights[cflight[c]].state \in {"running", "done"}
    /\ \A c \in Callers : Served(c) /\ flights[cflight[c]].orphaned =>
          cres[c] = flights[cflight[c]].result
    /\ \A k \in Keys : cache[k].kind = "value" =>
          ~flights[cache[k].flight].orphaned
    /\ \A k \in Keys : delPending[k] => cache[k].kind = "none"
    /\ ~delSkipped

\* A producer whose key was deleted under it returned a value under a
\* positive valid-duration, its waiter got the value, the key has no record,
\* and a key outside the prefix kept its value.
C3_Witness ==
    \E c \in Callers, f \in FlightIds, k2 \in Keys :
        /\ flights[f].orphaned /\ flights[f].state = "done"
        /\ flights[f].result \in Values
        /\ ttl[flights[f].key[2]] > 0
        /\ Served(c) /\ crole[c] = "join" /\ cflight[c] = f
        /\ cres[c] = flights[f].result
        /\ cache[flights[f].key].kind = "none"
        /\ k2 # flights[f].key /\ cache[k2].kind = "value"

\* ========================================================================
\* PART 4.  The RQL numeric predicate (numeric and numericValue)
\* ========================================================================

\* Longest operand string unmarshalled.
MaxOperandLen == 3

\* ---- JSON-like input values ---------------------------------------------
\* Strings are sequences of characters.
JStr(str) == [t |-> "string", s |-> str, v |-> 0, a |-> << >>]
JNum(num) == [t |-> "number", s |-> << >>, v |-> num, a |-> << >>]
JBool(b) == [t |-> "bool", s |-> << >>, v |-> IF b THEN 1 ELSE 0, a |-> << >>]
JNull == [t |-> "null", s |-> << >>, v |-> 0, a |-> << >>]
JArr(elems) == [t |-> "array", s |-> << >>, v |-> 0, a |-> elems]

\* ---- Decimals: coef * 10^exp ---------------------------------------------
Dec(c, e) == [coef |-> c, exp |-> e]
DecZero == Dec(0, 0)

Digits == <<"0", "1", "2", "3", "4", "5", "6", "7", "8", "9">>
IsDigit(c) == \E i \in 1..10 : Digits[i] = c
DigitVal(c) == (CHOOSE i \in 1..10 : Digits[i] = c) - 1

RECURSIVE DigitsVal(_)
DigitsVal(str) ==
    IF str = << >> THEN 0
    ELSE 10 * DigitsVal(SubSeq(str, 1, Len(str) - 1)) + DigitVal(str[Len(str)])

RECURSIVE NatToStr(_)
NatToStr(n) ==
    IF n < 10 THEN <<Digits[n + 1]>>
    ELSE NatToStr(n \div 10) \o <<Digits[(n % 10) + 1]>>

RECURSIVE Pow10(_)
Pow10(k) == IF k = 0 THEN 1 ELSE 10 * Pow10(k - 1)

Abs(x) == IF x < 0 THEN -x ELSE x

\* strconv.ParseInt(str, 10, 64): an optional sign, then one digit or more.
ParseInt(str) ==
    LET signed == Len(str) > 0 /\ str[1] \in {"-", "+"}
        body == IF signed THEN Tail(str) ELSE str
    IN IF body = << >> \/ \E i \in 1..Len(body) : ~IsDigit(body[i])
       THEN [ok |-> FALSE, val |-> 0]
       ELSE [ok |-> TRUE,
             val |-> IF signed /\ str[1] = "-" THEN -DigitsVal(body)
                     ELSE DigitsVal(body)]

\* decimal.NewFromString: at most one point; the point is dropped and every
\* character after it counts one place of the exponent.
NewFromString(str) ==
    LET dots == {i \in 1..Len(str) : str[i] = "."}
    IN IF Cardinality(dots) > 1 THEN [ok |-> FALSE, d |-> DecZero]
       ELSE IF dots = {}
       THEN [ok |-> ParseInt(str).ok, d |-> Dec(ParseInt(str).val, 0)]
       ELSE LET pIndex == CHOOSE i \in dots : TRUE
                intString == SubSeq(str, 1, pIndex - 1)
                                \o SubSeq(str, pIndex + 1, Len(str))
                parsed == ParseInt(intString)
            IN [ok |-> parsed.ok, d |-> Dec(parsed.val, -(Len(str) - pIndex))]

\* decimal.NewFromFloat of a JSON number; the model's JSON numbers are
\* integers, whose shortest decimal form drops the trailing zeros into the
\* exponent.
RECURSIVE NewFromFloat(_)
NewFromFloat(num) ==
    IF num # 0 /\ num % 10 = 0
    THEN Dec(NewFromFloat(num \div 10).coef, NewFromFloat(num \div 10).exp + 1)
    ELSE Dec(num, 0)

RECURSIVE TrimZeros(_)
TrimZeros(str) ==
    IF str # << >> /\ str[Len(str)] = "0"
    THEN TrimZeros(SubSeq(str, 1, Len(str) - 1)) ELSE str

RECURSIVE Zeros(_)
Zeros(k) == IF k <= 0 THEN << >> ELSE <<"0">> \o Zeros(k - 1)

\* The fraction is not padded with zeros up to the scale.
DecStringNoPadding(d) ==
    IF d.exp >= 0
    THEN (IF d.coef < 0 THEN <<"-">> ELSE << >>)
            \o NatToStr(Abs(d.coef) * Pow10(d.exp))
    ELSE LET str == NatToStr(Abs(d.coef))
             k == -d.exp
             intPart == IF Len(str) > k THEN SubSeq(str, 1, Len(str) - k)
                        ELSE <<"0">>
             fractionalPart ==
                 TrimZeros(IF Len(str) > k
                           THEN SubSeq(str, Len(str) - k + 1, Len(str))
                           ELSE str)
             number == IF fractionalPart = << >> THEN intPart
                       ELSE intPart \o <<".">> \o fractionalPart
         IN IF d.coef < 0 THEN <<"-">> \o number ELSE number

\* Decimal.String(): the digits with the point placed by the exponent and
\* the trailing zeros of the fraction trimmed.
DecString(d) ==
    IF d.exp >= 0
    THEN (IF d.coef < 0 THEN <<"-">> ELSE << >>)
            \o NatToStr(Abs(d.coef) * Pow10(d.exp))
    ELSE LET str == NatToStr(Abs(d.coef))
             k == -d.exp
             intPart == IF Len(str) > k THEN SubSeq(str, 1, Len(str) - k)
                        ELSE <<"0">>
             fractionalPart ==
                 TrimZeros(IF Len(str) > k
                           THEN SubSeq(str, Len(str) - k + 1, Len(str))
                           ELSE Zeros(k - Len(str)) \o str)
             number == IF fractionalPart = << >> THEN intPart
                       ELSE intPart \o <<".">> \o fractionalPart
         IN IF d.coef < 0 THEN <<"-">> \o number ELSE number

\* Decimal.Cmp: both operands rescaled to the smaller exponent.
DecCmp(x, y) ==
    LET e == IF x.exp < y.exp THEN x.exp ELSE y.exp
        xv == x.coef * Pow10(x.exp - e)
        yv == y.coef * Pow10(y.exp - e)
    IN IF xv < yv THEN -1 ELSE IF xv > yv THEN 1 ELSE 0

\* ---- The predicate ---------------------------------------------------------
LT == <<"<">>
LTE == <<"<", "=">>
GT == <<">">>
GTE == <<">", "=">>
EQL == <<"=">>
NEQL == <<"!", "=">>

\* The operators comparisonOpMap holds.
ComparisonOps == {LT, LTE, GT, GTE, EQL, NEQL}

NoErr == [class |-> "nil", msg |-> "none", wraps |-> "none"]
\* errz.MatchErrorf
MatchErrorf(m) == [class |-> "match", msg |-> m, wraps |-> "none"]
\* fmt.Errorf without %w
Errorf(m) == [class |-> "syntax", msg |-> m, wraps |-> "none"]
\* fmt.Errorf("...: %w", err): a new error value around err
Wrapf(err) == [class |-> "syntax", msg |-> err.msg, wraps |-> err.class]

\* errz.IsMatchError: the error itself is a match error.
IsMatchError(err) == err.class = "match"
IsSyntaxError(err) == err.class # "nil" /\ ~IsMatchError(err)

\* Numeric(op, n) and UnsignedNumeric(op, n)
Numeric(op, n) == [op |-> op, n |-> n, unsigned |-> FALSE]
UnsignedNumeric(op, n) == [Numeric(op, n) EXCEPT !.unsigned = TRUE]

\* matcher.Array(m): a non-empty array whose first element m accepts.
MatchArray(m(_), input) ==
    input.t = "array" /\ Len(input.a) >= 1 /\ m(input.a[1])

\* matcher.Value(str)
MatchValue(str, v) == v = JStr(str)

\* Any string is taken for a comparison operator.
OpMatcherAnyString(v) == v.t = "string"

\* The matcher of numeric.Unmarshal: a string that comparisonOpMap holds.
OpMatcher(v) == v.t = "string" /\ v.s \in ComparisonOps

\* Zero counts as negative.
IsNegativeOrZero(n) == DecCmp(n, DecZero) <= 0

\* n.LessThan(decimal.Zero)
IsNegative(n) == DecCmp(n, DecZero) < 0

\* (*numeric).Marshal
Marshal(p) == JArr(<<JStr(p.op), JStr(DecString(p.n))>>)

\* The end of (*numeric).Unmarshal, once op and n are known: the operator is
\* stored, then the unsigned check, then the operand is stored.
StoreOperand(p, op, n) ==
    LET q == [p EXCEPT !.op = op]
    IN IF q.unsigned /\ IsNegative(n)
       THEN [p |-> q, err |-> Errorf("unsigned")]
       ELSE [p |-> [q EXCEPT !.n = n], err |-> NoErr]

\* (*numeric).Unmarshal: the node after the call and the error returned.
Unmarshal(p, input) ==
    IF ~MatchArray(OpMatcher, input)
    THEN [p |-> p, err |-> MatchErrorf("format")]
    ELSE LET array == input.a IN
         IF Len(array) > 2 THEN [p |-> p, err |-> Errorf("format")]
         ELSE IF Len(array) # 2 THEN [p |-> p, err |-> Errorf("missing")]
         ELSE LET op == array[1].s
                  t == array[2]
              IN IF t.t = "number"
                 THEN StoreOperand(p, op, NewFromFloat(t.v))
                 ELSE IF t.t = "string"
                 THEN IF ~NewFromString(t.s).ok
                      THEN [p |-> p, err |-> Errorf("parse")]
                      ELSE StoreOperand(p, op, NewFromString(t.s).d)
                 ELSE [p |-> p, err |-> Errorf("invalid")]

\* (*numeric).EvalNumeric: "true", "false", or "panic" on an operator that is
\* none of the six.
EvalNumeric(p, n) ==
    LET c == DecCmp(n, p.n)
        b == IF p.op = LT THEN c < 0
             ELSE IF p.op = LTE THEN c <= 0
             ELSE IF p.op = GT THEN c > 0
             ELSE IF p.op = GTE THEN c >= 0
             ELSE IF p.op = EQL THEN c = 0
             ELSE c # 0
    IN IF p.op \notin ComparisonOps THEN "panic"
       ELSE IF b THEN "true" ELSE "false"

Number == <<"n", "u", "m", "b", "e", "r">>

\* (*numericValue).Marshal
NumericValueMarshal(p) == JArr(<<JStr(Number), Marshal(p)>>)

\* (*numericValue).Unmarshal over the numeric node it embeds.
NumericValueUnmarshal(p, input) ==
    IF ~(input.t = "array" /\ Len(input.a) >= 1 /\ MatchValue(Number, input.a[1]))
    THEN [p |-> p, err |-> MatchErrorf("format")]
    ELSE LET array == input.a IN
         IF Len(array) > 2 THEN [p |-> p, err |-> Errorf("format")]
         ELSE IF Len(array) < 2 THEN [p |-> p, err |-> Errorf("missing")]
         ELSE LET inner == Unmarshal(p, array[2])
              IN IF inner.err # NoErr
                 THEN [p |-> inner.p, err |-> Wrapf(inner.err)]
                 ELSE [p |-> inner.p, err |-> NoErr]

\* ---- Inputs ------------------------------------------------------------------
\* Largest coefficient and scale of the operand of a constructed node.
MaxCoef == 12
MaxScale == 2

OperandChars == {"-", ".", "0", "5"}
OperandStrings == SeqsUpTo(OperandChars, MaxOperandLen)
JsonNumbers == {-1, 0, 3, 5, 7, 50}
Foo == <<"f", "o", "o">>
Five == <<"5">>

\* What may stand where the number is expected.
Operands ==
    {JStr(str) : str \in OperandStrings} \cup {JNum(num) : num \in JsonNumbers}
        \cup {JBool(TRUE), JNull, JArr(<< >>)}

\* Inputs of (*numeric).Unmarshal: pairs of a string and an operand, arrays
\* that are too short or too long, and values of other shapes.
NumericInputs ==
    {JArr(<<JStr(o), x>>) : o \in ComparisonOps \cup {Foo}, x \in Operands}
        \cup {JArr(<<JStr(o)>>) : o \in ComparisonOps \cup {Foo}}
        \cup {JArr(<<JStr(o), JStr(Five), JStr(Five)>>) : o \in ComparisonOps \cup {Foo}}
        \cup {JArr(<< >>), JStr(LT), JNull, JNum(5), JBool(TRUE),
              JArr(<<JNum(5), JStr(Five)>>), JArr(<<JBool(TRUE)>>),
              JArr(<<JArr(<<JStr(LT)>>), JStr(Five)>>)}

\* Inputs of (*numericValue).Unmarshal.
ValueInputs ==
    {JArr(<<JStr(Number), x>>) : x \in NumericInputs}
        \cup {JArr(<<JStr(w)>>) : w \in {Number, Foo}}
        \cup {JArr(<<JStr(w), JArr(<<JStr(LT), JStr(Five)>>), JNull>>) : w \in {Number, Foo}}
        \cup {JArr(<<JStr(Foo), JArr(<<JStr(LT), JStr(Five)>>)>>),
              JArr(<< >>), JStr(Number), JNull, JNum(5)}

\* Values handed to EvalNumeric.
EvalValues == {Dec(-1, 0), Dec(0, 0), Dec(3, 0), Dec(5, 0), Dec(7, 0),
               Dec(5, -1), Dec(50, -1)}

\* Nodes the constructors build.
Nodes(ops, ns) ==
    {Numeric(op, n) : op \in ops, n \in ns}
        \cup {UnsignedNumeric(op, n) : op \in ops, n \in ns}

StartNodes == Nodes({LT, NEQL}, {Dec(5, 0), Dec(-1, 0)})

RoundTripNodes ==
    Nodes(ComparisonOps,
          {Dec(c, e) : c \in (-MaxCoef)..MaxCoef, e \in (-MaxScale)..1})

\* A fresh node of the kind of p.
FreshNode(p) == [op |-> << >>, n |-> DecZero, unsigned |-> p.unsigned]

NoRoundTrip == [kind |-> "none", first |-> JNull, p |-> FreshNode(Numeric(LT, DecZero)),
                err |-> NoErr, again |-> JNull]

\* ---- State machine --------------------------------------------------------------
NumericRest ==
    /\ ustage = "new"
    /\ uinput = JNull
    /\ uerr = NoErr
    /\ pprev = pred
    /\ evalIn = DecZero
    /\ evalOut = "none"
    /\ rt = NoRoundTrip

\* A constructed node, about to be unmarshalled into or evaluated.
NumericInit ==
    /\ pred \in StartNodes
    /\ NumericRest

\* A constructed node, about to be marshalled.
RoundTripInit ==
    /\ pred \in RoundTripNodes
    /\ NumericRest

\* No predicate is used.
NumericIdle ==
    /\ pred = Numeric(LT, DecZero)
    /\ NumericRest

\* p.Unmarshal(input) on the numeric node.
DoUnmarshal(input) ==
    /\ ustage = "new"
    /\ evalOut = "none"
    /\ LET res == Unmarshal(pred, input)
       IN /\ pred' = res.p
          /\ uerr' = res.err
    /\ pprev' = pred
    /\ uinput' = input
    /\ ustage' = "numeric"
    /\ UNCHANGED <<evalIn, evalOut, rt>>
    /\ UNCHANGED otherThanNumeric

\* NumericValue(p).Unmarshal(input) on the value predicate around the node.
DoUnmarshalValue(input) ==
    /\ ustage = "new"
    /\ evalOut = "none"
    /\ LET res == NumericValueUnmarshal(pred, input)
       IN /\ pred' = res.p
          /\ uerr' = res.err
    /\ pprev' = pred
    /\ uinput' = input
    /\ ustage' = "numericValue"
    /\ UNCHANGED <<evalIn, evalOut, rt>>
    /\ UNCHANGED otherThanNumeric

\* p.EvalNumeric(v)
DoEvalNumeric(v) ==
    /\ evalOut = "none"
    /\ evalIn' = v
    /\ evalOut' = EvalNumeric(pred, v)
    /\ UNCHANGED <<pred, ustage, uinput, uerr, pprev, rt>>
    /\ UNCHANGED otherThanNumeric

\* Marshal the node, unmarshal the result into a fresh node of its kind,
\* marshal that.
DoRoundTrip ==
    /\ rt.kind = "none"
    /\ LET first == Marshal(pred)
           res == Unmarshal(FreshNode(pred), first)
       IN rt' = [kind |-> "numeric", first |-> first, p |-> res.p,
                 err |-> res.err, again |-> Marshal(res.p)]
    /\ UNCHANGED <<pred, ustage, uinput, uerr, pprev, evalIn, evalOut>>
    /\ UNCHANGED otherThanNumeric

\* The same through the value predicate around the node.
DoRoundTripValue ==
    /\ rt.kind = "none"
    /\ LET first == NumericValueMarshal(pred)
           res == NumericValueUnmarshal(FreshNode(pred), first)
       IN rt' = [kind |-> "numericValue", first |-> first, p |-> res.p,
                 err |-> res.err, again |-> NumericValueMarshal(res.p)]
    /\ UNCHANGED <<pred, ustage, uinput, uerr, pprev, evalIn, evalOut>>
    /\ UNCHANGED otherThanNumeric

NumericNext ==
    \/ \E input \in NumericInputs : DoUnmarshal(input)
    \/ \E input \in ValueInputs : DoUnmarshalValue(input)
    \/ \E v \in EvalValues : DoEvalNumeric(v)

RoundTripNext ==
    \/ DoRoundTrip
    \/ DoRoundTripValue

\* ---- Properties of the numeric predicate ----------------------------------

\* The operand an input element denotes, when it denotes a number.
IsNumber(x) == x.t = "number" \/ (x.t = "string" /\ NewFromString(x.s).ok)
OperandValue(x) == IF x.t = "number" THEN NewFromFloat(x.v) ELSE NewFromString(x.s).d

\* Decimals compared as integers at a common scale.
Scaled(d) == d.coef * Pow10(d.exp + MaxOperandLen + MaxScale)
SameNumber(x, y) == Scaled(x) = Scaled(y)

\* v op n
Compare(op, v, n) ==
    IF op = LT THEN Scaled(v) < Scaled(n)
    ELSE IF op = LTE THEN Scaled(v) < Scaled(n) \/ Scaled(v) = Scaled(n)
    ELSE IF op = GT THEN Scaled(n) < Scaled(v)
    ELSE IF op = GTE THEN ~(Scaled(v) < Scaled(n))
    ELSE IF op = EQL THEN Scaled(v) = Scaled(n)
    ELSE Scaled(v) # Scaled(n)

\* [op, n] with a comparison operator and a number.
IsOpNumberPair(input) ==
    /\ input.t = "array" /\ Len(input.a) = 2
    /\ input.a[1].t = "string" /\ input.a[1].s \in ComparisonOps
    /\ IsNumber(input.a[2])

\* C11: unmarshalling [op, n], op a comparison operator and n a number, into
\* an unsigned numeric predicate fails exactly when n is negative, with a
\* syntax error that says "unsigned"; otherwise, and always for a signed
\* predicate, it succeeds, and the predicate then evaluates v as v op n.
C11_UnsignedRejectsNegatives ==
    (ustage = "numeric" /\ IsOpNumberPair(uinput)) =>
        LET op == uinput.a[1].s
            n == OperandValue(uinput.a[2])
        IN IF pprev.unsigned /\ n.coef < 0
           THEN /\ IsSyntaxError(uerr) /\ ~IsMatchError(uerr)
                /\ uerr.msg = "unsigned"
           ELSE /\ uerr = NoErr
                /\ pred.op = op /\ pred.n = n
                /\ evalOut # "none" =>
                      evalOut = (IF Compare(op, evalIn, n) THEN "true" ELSE "false")

\* ["<", "-5"] went into an unsigned predicate and was rejected.
C11_Witness ==
    /\ ustage = "numeric" /\ pprev.unsigned
    /\ uinput = JArr(<<JStr(LT), JStr(<<"-", "5">>)>>)
    /\ uerr.msg = "unsigned"

\* ["<", "5"] went into an unsigned predicate, which holds of 3 and not of 7.
C11_Accepted ==
    /\ ustage = "numeric" /\ pprev.unsigned
    /\ uinput = JArr(<<JStr(LT), JStr(Five)>>)
    /\ uerr = NoErr /\ evalIn = Dec(3, 0) /\ evalOut = "true"

\* The leading element is the node's operator.
Recognised(kind, input) ==
    /\ input.t = "array" /\ Len(input.a) >= 1 /\ input.a[1].t = "string"
    /\ IF kind = "numeric" THEN input.a[1].s \in ComparisonOps
       ELSE input.a[1].s = Number

\* The arguments after the operator are what the node takes.
WellFormed(kind, unsigned, input) ==
    IF kind = "numeric"
    THEN /\ Len(input.a) = 2 /\ IsNumber(input.a[2])
         /\ unsigned => OperandValue(input.a[2]).coef >= 0
    ELSE /\ Len(input.a) = 2
         /\ Recognised("numeric", input.a[2])
         /\ Len(input.a[2].a) = 2 /\ IsNumber(input.a[2].a[2])
         /\ unsigned => OperandValue(input.a[2].a[2]).coef >= 0

\* C12: an input that is no array, or whose leading element is not the
\* node's operator, is a match error; the operator followed by missing,
\* surplus or invalid arguments is a syntax error and no match error; a
\* well-formed input gives no error.
C12_ErrorClasses ==
    ustage # "new" =>
        /\ ~(IsMatchError(uerr) /\ IsSyntaxError(uerr))
        /\ IF ~Recognised(ustage, uinput) THEN IsMatchError(uerr)
           ELSE IF ~WellFormed(ustage, pprev.unsigned, uinput)
           THEN IsSyntaxError(uerr) /\ ~IsMatchError(uerr)
           ELSE uerr = NoErr

\* An operator with a surplus argument gave a syntax error, and so did
\* "number" around an input that is no numeric predicate.
C12_Witness ==
    \/ /\ ustage = "numeric" /\ Len(uinput.a) = 3 /\ IsSyntaxError(uerr)
    \/ /\ ustage = "numericValue" /\ uerr.wraps = "match"

\* C18: an Unmarshal that fails leaves the operator and the operand of the
\* predicate as they were.
C18_FailedUnmarshalChangesNothing ==
    (ustage # "new" /\ uerr # NoErr) => pred = pprev

\* A failed Unmarshal leaves the operand as it was.
C18_OperandKept ==
    (ustage # "new" /\ uerr # NoErr) => pred.n = pprev.n /\ pred.unsigned = pprev.unsigned

RoundTrips == rt.err = NoErr
                /\ rt.p.op = pred.op /\ rt.p.unsigned = pred.unsigned
                /\ SameNumber(rt.p.n, pred.n)
                /\ rt.again = rt.first

\* C13 as stated: every numeric node, whatever its operator and operand,
\* unmarshals from its own Marshal into an equal node that marshals alike.
C13_RoundTrip ==
    rt.kind # "none" => RoundTrips

\* C13 amended: the same for every numeric node that is signed or whose
\* operand is not negative.
C13_RoundTripNonNegative ==
    (rt.kind # "none" /\ ~(pred.unsigned /\ pred.n.coef < 0)) => RoundTrips

\* An unsigned node with the operand 1.0 went round: it came back with the
\* operand 1.
C13_Witness ==
    /\ rt.kind = "numeric" /\ pred.unsigned /\ pred.n = Dec(10, -1)
    /\ rt.err = NoErr /\ rt.p.n = Dec(1, 0)

\* ========================================================================
\* PART 5.  RQL expressions: atoms and NOT over entries, values and their
\*          schemas (the name, cname, action, null, boolean, number and
\*          object predicates)
\* ========================================================================

\* Members an object value or an object schema may list.
MaxMembers == 2

\* ---- Strings and case folding ------------------------------------------------
LowerChars == <<"a", "b", "f", "o", "r">>
UpperChars == <<"A", "B", "F", "O", "R">>

ToUpperChar(c) ==
    IF \E i \in 1..Len(LowerChars) : LowerChars[i] = c
    THEN UpperChars[CHOOSE i \in 1..Len(LowerChars) : LowerChars[i] = c]
    ELSE c

\* strings.ToUpper
ToUpper(str) == [i \in 1..Len(str) |-> ToUpperChar(str[i])]

\* A key of an object matches the selector under case folding.
KeyMatches(k, key) == ToUpper(k) = ToUpper(key)

\* ---- Values ------------------------------------------------------------------
\* An object is the sequence of its members in the order they are visited.
JMember(k, val) == [t |-> "member", s |-> k, v |-> 0, a |-> <<val>>]
JObj(members) == [t |-> "object", s |-> << >>, v |-> 0, a |-> members]

\* ---- Value schemas -----------------------------------------------------------
\* type "any": the schema says nothing about the type.
PropSchema(k, type) == [k |-> k, type |-> type]
VS(type, props, additional) ==
    [type |-> type, props |-> props, additional |-> additional]
PrimitiveVS(type) == VS(type, << >>, TRUE)

TypeOf(v) == IF v.t = "bool" THEN "boolean" ELSE v.t

\* The value is one the schema describes.
Conforms(v, sch) ==
    /\ sch.type \in {"any", TypeOf(v)}
    /\ (sch.type = "object") =>
          \A i \in 1..Len(v.a) :
              LET declared == {j \in 1..Len(sch.props) : sch.props[j].k = v.a[i].s}
              IN IF declared = {} THEN sch.additional
                 ELSE \A j \in declared :
                          sch.props[j].type \in {"any", TypeOf(v.a[i].a[1])}

\* ---- Entries and entry schemas -------------------------------------------------
Entry(name, cname, actions) == [name |-> name, cname |-> cname, actions |-> actions]
EntrySchema(actions) == [actions |-> actions]

\* ---- Nodes -------------------------------------------------------------------
\* kind: "name" | "cname" | "action" | "null" | "boolean" | "number" | "object";
\* arg: the glob, the action or the key selector; elem: the predicate on the
\* selected element; num: the numeric predicate; neg: wrapped in NOT.
Node(kind, arg, elem, num) ==
    [kind |-> kind, arg |-> arg, elem |-> elem, num |-> num, neg |-> FALSE]
NullP == Node("null", << >>, << >>, Numeric(LT, DecZero))
BooleanP == Node("boolean", << >>, << >>, Numeric(LT, DecZero))
NumberP(num) == Node("number", << >>, << >>, num)
ObjectP(key, p) == Node("object", key, <<p>>, Numeric(LT, DecZero))
NameP(glob) == Node("name", glob, << >>, Numeric(LT, DecZero))
CNameP(glob) == Node("cname", glob, << >>, Numeric(LT, DecZero))
ActionP(action) == Node("action", action, << >>, Numeric(LT, DecZero))
Not(p) == [p EXCEPT !.neg = TRUE]

\* StringGlob: the model's globs are literal names and "*".
Star == <<"*">>
GlobMatches(glob, str) == glob = Star \/ glob = str

\* The last member whose key matches, 0 when there is none.
LastMatchingKey(members, key) ==
    LET hits == {i \in 1..Len(members) : KeyMatches(members[i].s, key)}
    IN IF hits = {} THEN 0 ELSE CHOOSE i \in hits : \A j \in hits : j <= i

\* The first member whose key matches, 0 when there is none.
FindMatchingKey(members, key) ==
    LET hits == {i \in 1..Len(members) : KeyMatches(members[i].s, key)}
    IN IF hits = {} THEN 0 ELSE CHOOSE i \in hits : \A j \in hits : i <= j

\* EvalValue of an atom.
RECURSIVE EvalValueAtom(_, _)
EvalValueAtom(p, v) ==
    IF p.kind = "null" THEN v.t = "null"
    ELSE IF p.kind = "boolean" THEN v = JBool(TRUE)
    ELSE IF p.kind = "number"
    THEN v.t = "number" /\ EvalNumeric(p.num, NewFromFloat(v.v)) = "true"
    ELSE /\ v.t = "object"
         /\ FindMatchingKey(v.a, p.arg) # 0
         /\ EvalValueAtom(p.elem[1], v.a[FindMatchingKey(v.a, p.arg)].a[1])

\* EvalValueSchema of an atom: false only when no value of the schema can
\* satisfy the atom.
RECURSIVE EvalValueSchemaAtom(_, _)
EvalValueSchemaAtom(p, sch) ==
    IF sch.type = "any" THEN TRUE
    ELSE IF p.kind # "object" THEN sch.type = p.kind
    ELSE /\ sch.type = "object"
         /\ \/ sch.additional
            \/ \E j \in 1..Len(sch.props) :
                  /\ KeyMatches(sch.props[j].k, p.arg)
                  /\ EvalValueSchemaAtom(p.elem[1], PrimitiveVS(sch.props[j].type))

\* EvalEntry of an atom.
EvalEntryAtom(p, e) ==
    IF p.kind = "name" THEN GlobMatches(p.arg, e.name)
    ELSE IF p.kind = "cname" THEN GlobMatches(p.arg, e.cname)
    ELSE p.arg \in e.actions

\* EvalEntrySchema of an atom: names are not in the schema; actions are.
EvalEntrySchemaAtom(p, sch) ==
    IF p.kind \in {"name", "cname"} THEN TRUE ELSE p.arg \in sch.actions

\* NOT at schema level negates the atom's schema result.
NotSchemaNegates(inner) == ~inner

\* NOT at schema level: the atom's result says nothing about the entries
\* that do not satisfy it.
NotSchema(inner) == TRUE

\* The expression: the atom, or NOT around it.
EvalValue(x, v) == IF x.neg THEN ~EvalValueAtom(x, v) ELSE EvalValueAtom(x, v)
EvalValueSchema(x, sch) ==
    IF x.neg THEN NotSchema(EvalValueSchemaAtom(x, sch))
    ELSE EvalValueSchemaAtom(x, sch)
EvalEntry(x, e) == IF x.neg THEN ~EvalEntryAtom(x, e) ELSE EvalEntryAtom(x, e)
EvalEntrySchema(x, sch) ==
    IF x.neg THEN NotSchema(EvalEntrySchemaAtom(x, sch))
    ELSE EvalEntrySchemaAtom(x, sch)

\* ---- Inputs ------------------------------------------------------------------
KeyFoo == <<"f", "o", "o">>
KeyFOO == <<"F", "O", "O">>
KeyBar == <<"b", "a", "r">>
\* The selector of the object predicate under test.
SelFoo == <<"f", "O", "o">>
Read == <<"read">>
List == <<"list">>

MemberKeys == {KeyFoo, KeyFOO, KeyBar}
MemberValues == {JBool(TRUE), JBool(FALSE), JNull}

\* Sequences of at most n elements of S whose keys, taken by key(_), differ.
DistinctSeqs(S, n, key(_)) ==
    {q \in SeqsUpTo(S, n) : \A i, j \in 1..Len(q) : i # j => key(q[i]) # key(q[j])}

MemberKey(m) == m.s
PropKey(pr) == pr.k

ObjectValues ==
    {JObj(m) : m \in DistinctSeqs({JMember(k, val) : k \in MemberKeys, val \in MemberValues},
                                  MaxMembers, MemberKey)}

QValues == ObjectValues \cup {JStr(KeyFoo), JBool(TRUE), JNull, JNum(1), JArr(<< >>)}

ObjectSchemas ==
    {VS("object", props, additional) :
        props \in DistinctSeqs({PropSchema(k, type) : k \in MemberKeys,
                                type \in {"boolean", "null", "any"}},
                               MaxMembers, PropKey),
        additional \in BOOLEAN}

QSchemas ==
    ObjectSchemas \cup {PrimitiveVS(type) :
                          type \in {"null", "boolean", "number", "string", "array", "any"}}

ValueAtoms ==
    {NullP, BooleanP, NumberP(Numeric(LT, Dec(5, 0)))}
        \cup {ObjectP(k, e) : k \in {SelFoo, KeyBar}, e \in {BooleanP, NullP}}

EntryAtoms == {NameP(KeyFoo), NameP(Star), CNameP(KeyFoo), ActionP(Read), ActionP(List)}

WithNot(atoms) == atoms \cup {Not(a) : a \in atoms}

QEntries ==
    {Entry(n, c, acts) : n \in {KeyFoo, KeyBar}, c \in {KeyFoo, KeyBar},
                         acts \in SUBSET {Read, List}}

\* ---- State machine --------------------------------------------------------------
\* An expression and a value of some value schema, or an entry with the
\* schema of its type.
RqlInit ==
    /\ qres = "none"
    /\ qsres = "none"
    /\ \/ /\ qmode = "value"
          /\ qnode \in WithNot(ValueAtoms)
          /\ qvalue \in QValues
          /\ qvschema \in QSchemas
          /\ Conforms(qvalue, qvschema)
          /\ qentry = Entry(KeyFoo, KeyFoo, {})
          /\ qeschema = EntrySchema({})
       \/ /\ qmode = "entry"
          /\ qnode \in WithNot(EntryAtoms)
          /\ qentry \in QEntries
          /\ qeschema = EntrySchema(qentry.actions)
          /\ qvalue = JNull
          /\ qvschema = PrimitiveVS("null")

\* No expression is evaluated.
RqlIdle ==
    /\ qres = "none"
    /\ qsres = "none"
    /\ qmode = "value"
    /\ qnode = NullP
    /\ qvalue = JNull
    /\ qvschema = PrimitiveVS("null")
    /\ qentry = Entry(KeyFoo, KeyFoo, {})
    /\ qeschema = EntrySchema({})

AsResult(b) == IF b THEN "true" ELSE "false"

\* EvalValue / EvalEntry of the expression.
DoEval ==
    /\ qres = "none"
    /\ qres' = IF qmode = "value" THEN AsResult(EvalValue(qnode, qvalue))
               ELSE AsResult(EvalEntry(qnode, qentry))
    /\ UNCHANGED <<qnode, qmode, qvalue, qvschema, qentry, qeschema, qsres>>
    /\ UNCHANGED otherThanRql

\* EvalValueSchema / EvalEntrySchema of the expression.
DoEvalSchema ==
    /\ qsres = "none"
    /\ qsres' = IF qmode = "value" THEN AsResult(EvalValueSchema(qnode, qvschema))
                ELSE AsResult(EvalEntrySchema(qnode, qeschema))
    /\ UNCHANGED <<qnode, qmode, qvalue, qvschema, qentry, qeschema, qres>>
    /\ UNCHANGED otherThanRql

RqlNext ==
    \/ DoEval
    \/ DoEvalSchema

\* ---- Properties of RQL expressions -------------------------------------------

SameLetter(c, d) ==
    \/ c = d
    \/ \E i \in 1..Len(LowerChars) : {c, d} = {LowerChars[i], UpperChars[i]}

EqualFold(k, key) ==
    Len(k) = Len(key) /\ \A i \in 1..Len(k) : SameLetter(k[i], key[i])

\* w is v with its keys respelled in another case.
CaseVariant(v, w) ==
    /\ v.t = "object" /\ w.t = "object" /\ Len(v.a) = Len(w.a)
    /\ \A i \in 1..Len(v.a) : EqualFold(v.a[i].s, w.a[i].s) /\ v.a[i].a = w.a[i].a

\* C15: an object predicate with key selector k and element predicate p is
\* true of v iff v is an object and p holds on the value of the first key of
\* v equal to k under case folding; the result is the same for every case
\* variant of the object's keys.
C15_ObjectFirstMatchingKey ==
    (qmode = "value" /\ qnode.kind = "object" /\ ~qnode.neg /\ qres # "none") =>
        /\ qres = AsResult(
              /\ qvalue.t = "object"
              /\ \E i \in 1..Len(qvalue.a) :
                    /\ EqualFold(qvalue.a[i].s, qnode.arg)
                    /\ \A j \in 1..(i - 1) : ~EqualFold(qvalue.a[j].s, qnode.arg)
                    /\ EvalValueAtom(qnode.elem[1], qvalue.a[i].a[1]))
        /\ \A w \in QValues :
              CaseVariant(qvalue, w) => AsResult(EvalValue(qnode, w)) = qres

\* The object lists FOO: false before foo: true; the predicate on key fOo
\* took the first and was false.
C15_Witness ==
    /\ qmode = "value"
    /\ qnode = ObjectP(SelFoo, BooleanP)
    /\ qvalue = JObj(<<JMember(KeyFOO, JBool(FALSE)), JMember(KeyFoo, JBool(TRUE))>>)
    /\ qres = "false"

\* ========================================================================
\* PART 6.  dataflowReader: job messages as a byte stream
\*          (src/gcp/dataflow.go)
\* ========================================================================

\* Pages the API serves, messages in a page, length of the caller's buffer.
MaxPages == 2
MaxPageMsgs == 2
MaxBuf == 12

\* dataflow.JobMessage
JobMessage(time, importance, text) ==
    [Time |-> time, MessageImportance |-> importance, MessageText |-> text]

\* The length leaves out the newline.
MsgLenShort(msg) ==
    Len(msg.Time) + Len(msg.MessageImportance) + Len(msg.MessageText) + 2

\* msgLen of consume
MsgLen(msg) ==
    Len(msg.Time) + Len(msg.MessageImportance) + Len(msg.MessageText) + 3

\* msg.Time+" "+msg.MessageImportance+" "+msg.MessageText+"\n"
Format(msg) ==
    msg.Time \o <<" ">> \o msg.MessageImportance \o <<" ">> \o msg.MessageText
        \o <<"\n">>

\* copy(p, str) where p is buf from offset off on: as many bytes as fit.
Copy(buf, off, str) ==
    [i \in 1..Len(buf) |->
        IF off < i /\ i <= off + Len(str) THEN str[i - off] ELSE buf[i]]

\* consume: whole messages are copied while the next one fits in what is
\* left of p; ov is the overflow, off what was written so far.
RECURSIVE Consume(_, _, _)
Consume(ov, buf, off) ==
    IF ov = << >> \/ MsgLen(ov[1]) > Len(buf) - off
    THEN [overflow |-> ov, buf |-> buf, n |-> off]
    ELSE Consume(Tail(ov), Copy(buf, off, Format(ov[1])), off + MsgLen(ov[1]))

\* resp.NextPageToken of page i: 0 is the empty token of the last page.
NextPageToken(pages, i) == IF i < Len(pages) THEN i + 1 ELSE 0

Msgs == {JobMessage(<<"t">>, <<"i">>, text) : text \in {<< >>, <<"a">>, <<"a", "b">>}}
Pages == SeqsUpTo(Msgs, MaxPageMsgs)
BufLens == 1..MaxBuf

\* A byte of the buffer Read has not written.
Blank == "?"
NewBuf(len) == [i \in 1..len |-> Blank]

LogRest ==
    /\ lrToken = 1
    /\ lrOverflow = << >>
    /\ lrEof = FALSE
    /\ lrPc = "idle"
    /\ lrBuf = << >>
    /\ lrN = 0
    /\ lrGot = << >>
    /\ lrLastN = 0
    /\ lrLastErr = "none"

\* readLog: a reader on the first page of some job's messages.
LogInit ==
    /\ lrPages \in (SeqsUpTo(Pages, MaxPages) \ {<< >>})
    /\ LogRest

\* No reader.
LogIdle ==
    /\ lrPages = << << >> >>
    /\ LogRest

\* return: n bytes of p are reported, with err.
ReadReturn(buf, n, err) ==
    /\ lrGot' = lrGot \o SubSeq(buf, 1, n)
    /\ lrLastN' = n
    /\ lrLastErr' = err
    /\ lrPc' = "idle"
    /\ lrBuf' = << >>
    /\ lrN' = 0

\* Read(p), up to the fetch loop: left-over messages are consumed, and the
\* call returns if some remain; it returns io.EOF if the last page was seen.
ReadBegin(len) ==
    /\ lrPc = "idle"
    /\ LET c == Consume(lrOverflow, NewBuf(len), 0)
       IN IF lrOverflow # << >> /\ c.overflow # << >>
          THEN /\ ReadReturn(c.buf, c.n, "nil")
               /\ lrOverflow' = c.overflow
          ELSE /\ lrOverflow' = c.overflow
               /\ IF lrEof
                  THEN ReadReturn(c.buf, c.n, "EOF")
                  ELSE /\ lrPc' = "loop"
                       /\ lrBuf' = c.buf
                       /\ lrN' = c.n
                       /\ UNCHANGED <<lrGot, lrLastN, lrLastErr>>
    /\ UNCHANGED <<lrPages, lrToken, lrEof>>
    /\ UNCHANGED otherThanLog

\* One turn of the loop with rdr.Do() succeeding: the page becomes the
\* overflow and is consumed, the next token is set, and the call returns if
\* messages are left or this was the last page.
ReadPage ==
    /\ lrPc = "loop"
    /\ LET c == Consume(lrPages[lrToken], lrBuf, lrN)
           next == NextPageToken(lrPages, lrToken)
       IN /\ lrOverflow' = c.overflow
          /\ lrToken' = next
          /\ lrEof' = (next = 0)
          /\ IF c.overflow # << >> \/ next = 0
             THEN ReadReturn(c.buf, c.n, "nil")
             ELSE /\ lrBuf' = c.buf
                  /\ lrN' = c.n
                  /\ UNCHANGED <<lrPc, lrGot, lrLastN, lrLastErr>>
    /\ UNCHANGED lrPages
    /\ UNCHANGED otherThanLog

\* rdr.Do() fails: Read returns what it has, with the error.
ReadPageError ==
    /\ lrPc = "loop"
    /\ ReadReturn(lrBuf, lrN, "err")
    /\ UNCHANGED <<lrPages, lrToken, lrOverflow, lrEof>>
    /\ UNCHANGED otherThanLog

\* The API may fail.
LogNext ==
    \/ \E len \in BufLens : ReadBegin(len)
    \/ ReadPage
    \/ ReadPageError

\* ---- Properties of the reader ---------------------------------------------

\* The formatted messages of a sequence of messages, and of pages in order.
RECURSIVE FormatAll(_)
FormatAll(msgs) ==
    IF msgs = << >> THEN << >> ELSE Format(msgs[1]) \o FormatAll(Tail(msgs))

RECURSIVE AllMessages(_)
AllMessages(pages) ==
    IF pages = << >> THEN << >> ELSE pages[1] \o AllMessages(Tail(pages))

Expected == FormatAll(AllMessages(lrPages))

\* The stream ends on a message boundary: it is the first k messages.
WholeMessages(bytes) ==
    \E k \in 0..Len(AllMessages(lrPages)) :
        bytes = FormatAll(SubSeq(AllMessages(lrPages), 1, k))

\* C16: the bytes the Read calls report, concatenated, are always a prefix of
\* the formatted messages in page order, made of whole messages (nothing is
\* skipped, duplicated, reordered or split), also when a page fetch failed
\* and was retried; and a Read returns io.EOF only once every message of
\* every page was delivered.
C16_StreamIsPrefixOfMessages ==
    /\ IsPrefix(lrGot, Expected)
    /\ WholeMessages(lrGot)
    /\ (lrLastErr = "EOF" => lrGot = Expected)

\* A Read delivered the messages of the first page, then failed to fetch the
\* second one, with messages still to come.
C16_Witness ==
    /\ lrPc = "idle"
    /\ lrLastErr = "err"
    /\ lrLastN > 0
    /\ lrToken = 2
    /\ lrGot # Expected

\* C17 (the part a single Read decides): a Read that returns a nil error
\* while messages are still to be delivered has delivered at least one byte.
C17_ReadDelivers ==
    (lrPc = "idle" /\ lrLastErr = "nil" /\ lrGot # Expected) => lrLastN >= 1

\* ========================================================================
\* PART 7.  searchDataflowJob: finding a job by name
\*          (src/gcp/dataflow.go)
\* ========================================================================

\* Jobs in a listing, letters in a job name.
MaxJobs == 3
MaxNameLen == 2

\* The bytes of the characters used, for Go's string comparison.
CharOrd == [c \in {"/", "1", "2", "a", "b"} |->
    CASE c = "/" -> 47 [] c = "1" -> 49 [] c = "2" -> 50
      [] c = "a" -> 97 [] c = "b" -> 98]

\* x < y on Go strings: bytewise lexicographic.
RECURSIVE StrLess(_, _)
StrLess(x, y) ==
    IF y = << >> THEN FALSE
    ELSE IF x = << >> THEN TRUE
    ELSE IF x[1] # y[1] THEN CharOrd[x[1]] < CharOrd[y[1]]
    ELSE StrLess(Tail(x), Tail(y))

\* strings.Split(id, "/")
RECURSIVE StringsSplit(_, _)
StringsSplit(str, cur) ==
    IF str = << >> THEN <<cur>>
    ELSE IF str[1] = "/" THEN <<cur>> \o StringsSplit(Tail(str), << >>)
    ELSE StringsSplit(Tail(str), Append(cur, str[1]))

\* splitDataflowID: name and id, or panic.
splitDataflowID(id) ==
    LET tokens == StringsSplit(id, << >>)
    IN IF Len(tokens) # 2
       THEN [panic |-> TRUE, name |-> << >>, id |-> << >>]
       ELSE [panic |-> FALSE, name |-> tokens[1], id |-> tokens[2]]

\* sort.Search(len(jobs), func(i) { x, _ := splitDataflowID(jobs[i]);
\* return x >= name }), from the bounds i, j on; Go indexes from 0.
RECURSIVE SortSearch(_, _, _, _)
SortSearch(i, j, jobs, name) ==
    IF i < j
    THEN LET h == (i + j) \div 2
         IN IF StrLess(splitDataflowID(jobs[h + 1]).name, name)
            THEN SortSearch(h + 1, j, jobs, name)
            ELSE SortSearch(i, h, jobs, name)
    ELSE i

\* searchDataflowJob
searchDataflowJob(jobs, name) ==
    LET idx == SortSearch(0, Len(jobs), jobs, name)
    IN IF idx < Len(jobs) /\ splitDataflowID(jobs[idx + 1]).name = name
       THEN [done |-> TRUE, job |-> jobs[idx + 1], ok |-> TRUE]
       ELSE [done |-> TRUE, job |-> << >>, ok |-> FALSE]

\* jobs[i] = job.Name + "/" + job.Id
JobString(job) == job.Name \o <<"/">> \o job.Id

JobNames == SeqsUpTo({"a", "b"}, MaxNameLen) \ {<< >>}
JobIds == {<<"1">>, <<"2">>}
ApiJobs == [Name : JobNames, Id : JobIds]

SearchRest ==
    /\ sjJobs = << >>
    /\ sjListed = FALSE
    /\ sjName = << >>
    /\ sjRes = [done |-> FALSE, job |-> << >>, ok |-> FALSE]

\* The project has some jobs, which the API lists in an order of its own.
SearchInit ==
    /\ sjApi \in SeqsUpTo(ApiJobs, MaxJobs)
    /\ SearchRest

SearchIdle ==
    /\ sjApi = << >>
    /\ SearchRest

\* cachedDataflowJobs: one string per job, in the order of the response.
DoListJobs ==
    /\ ~sjListed
    /\ sjJobs' = [i \in 1..Len(sjApi) |-> JobString(sjApi[i])]
    /\ sjListed' = TRUE
    /\ UNCHANGED <<sjApi, sjName, sjRes>>
    /\ UNCHANGED otherThanSearch

\* searchDataflowJob(jobs, name) on the listing.
DoSearchJob(name) ==
    /\ sjListed
    /\ ~sjRes.done
    /\ sjName' = name
    /\ sjRes' = searchDataflowJob(sjJobs, name)
    /\ UNCHANGED <<sjApi, sjJobs, sjListed>>
    /\ UNCHANGED otherThanSearch

SearchNext ==
    \/ DoListJobs
    \/ \E name \in JobNames : DoSearchJob(name)

\* ---- Properties of the search ---------------------------------------------

\* The jobs of the listing whose name part is name.
Named(jobs, name) ==
    {i \in 1..Len(jobs) : splitDataflowID(jobs[i]).name = name}

\* The result a linear search may give: some job of that name and true if
\* there is one, "" and false otherwise.
AgreesWithLinearSearch(jobs, name, res) ==
    IF Named(jobs, name) # {}
    THEN res.ok /\ \E i \in Named(jobs, name) : res.job = jobs[i]
    ELSE ~res.ok /\ res.job = << >>

\* C19: on every listing cachedDataflowJobs can produce, in the order the API
\* returned the jobs, searchDataflowJob finds a job of the name searched for
\* exactly when the listing holds one.
C19_SearchAgreesWithLinearSearch ==
    sjRes.done => AgreesWithLinearSearch(sjJobs, sjName, sjRes)

\* The listing is in ascending order of name.
SortedByName(jobs) ==
    \A i, j \in 1..Len(jobs) :
        i < j => ~StrLess(splitDataflowID(jobs[j]).name,
                          splitDataflowID(jobs[i]).name)

\* On listings that are sorted by name the search does agree.
SearchAgreesOnSorted ==
    (sjRes.done /\ SortedByName(sjJobs))
        => AgreesWithLinearSearch(sjJobs, sjName, sjRes)

\* ========================================================================
\* Specifications: one per part; the other parts' variables stand still.
\* ========================================================================

vars == <<schemaVars,
         streamVars,
         cacheVars,
         numericVars,
         rqlVars,
         logVars,
         searchVars>>

InitSchema == SchemaInit /\ StreamInit /\ CacheIdle /\ NumericIdle /\ RqlIdle
    /\ LogIdle /\ SearchIdle

SpecSchema == InitSchema /\ [][SchemaNext]_vars

InitStream == SchemaIdle /\ StreamInit /\ CacheIdle /\ NumericIdle /\ RqlIdle
    /\ LogIdle /\ SearchIdle

SpecStream == InitStream /\ [][StreamNext]_vars

SpecReaders == InitStream /\ [][ReadersNext]_vars

InitCache == SchemaIdle /\ StreamInit /\ CacheInit /\ NumericIdle /\ RqlIdle
    /\ LogIdle /\ SearchIdle

SpecCalls == InitCache /\ [][CallsNext]_vars

SpecCache == InitCache /\ [][CacheNext]_vars

InitNumeric == SchemaIdle /\ StreamInit /\ CacheIdle /\ NumericInit /\ RqlIdle
    /\ LogIdle /\ SearchIdle

SpecNumeric == InitNumeric /\ [][NumericNext]_vars

InitRoundTrip == SchemaIdle /\ StreamInit /\ CacheIdle /\ RoundTripInit /\ RqlIdle
    /\ LogIdle /\ SearchIdle

SpecRoundTrip == InitRoundTrip /\ [][RoundTripNext]_vars

InitRql == SchemaIdle /\ StreamInit /\ CacheIdle /\ NumericIdle /\ RqlInit
    /\ LogIdle /\ SearchIdle

SpecRql == InitRql /\ [][RqlNext]_vars

InitLog == SchemaIdle /\ StreamInit /\ CacheIdle /\ NumericIdle /\ RqlIdle
    /\ LogInit /\ SearchIdle

SpecLog == InitLog /\ [][LogNext]_vars

InitSearch == SchemaIdle /\ StreamInit /\ CacheIdle /\ NumericIdle /\ RqlIdle
    /\ LogIdle /\ SearchInit

SpecSearch == InitSearch /\ [][SearchNext]_vars

====
